---------------------------- MODULE Spec2Model ----------------------------
(***************************************************************************)
(* openbook-candles: the candle store (src/database/insert.rs,             *)
(* src/database/initialize.rs) and the fill-ledger queries                 *)
(* (src/database/fetch.rs, src/structs/openbook.rs,                        *)
(* src/structs/coingecko.rs).                                              *)
(*                                                                         *)
(* Text is a sequence of one-character strings.  f64 values are whole      *)
(* numbers (Rust prints 1.0f64 as "1"), timestamps are whole ticks.        *)
(***************************************************************************)
EXTENDS Integers, Sequences, FiniteSets, TLC

VARIABLES
    tableExists,   \* openbook.candles exists
    indexExists,   \* idx_market_time_resolution exists
    candles,       \* committed rows of openbook.candles
    nextId,        \* next value of the identity sequence of candles.id
    wpc,           \* per writer: "idle" | "next" | "rows" | "ok" | "err"
    wbatch,        \* per writer: the Vec<Candle> of the merge-write under way
    wstmts,        \* per writer: parsed statements still to execute
    wrows,         \* per writer: VALUES rows of the running statement not yet processed
    wpending,      \* per writer: uncommitted row versions of the running statement
    last,          \* outcome of the last sequential merge-write
    fetched,       \* result of the last fetch_candles_from
    ledger,        \* rows of openbook.openbook_fill_events
    now,           \* current_timestamp
    resp           \* the last ledger query: its name, arguments and rows

storeVars  == <<tableExists, indexExists, candles, nextId, wpc, wbatch, wstmts,
                wrows, wpending, last, fetched>>
ledgerVars == <<ledger, now, resp>>
vars       == <<storeVars, ledgerVars>>

-----------------------------------------------------------------------------
(* Bounds *)

MaxBatch == 2      \* candles per batch
MaxId    == 2      \* identity values handed out

StartTimes == {0, 1}   \* candle start times
Levels     == {1, 2}   \* candle price levels

Writers == {"w1", "w2"}

Min(a, b) == IF a < b THEN a ELSE b

-----------------------------------------------------------------------------
(* Text *)

DigitChars == <<"0", "1", "2", "3", "4", "5", "6", "7", "8", "9">>
Digits     == {DigitChars[i] : i \in 1..10}
Letters    == {"a", "b", "e", "f", "l", "r", "s", "t", "u", "H", "M", "T"}

DigitVal(ch) == (CHOOSE i \in 1..10 : DigitChars[i] = ch) - 1

\* Display of a non-negative whole number
RECURSIVE FormatNat(_)
FormatNat(n) ==
    IF n < 10 THEN <<DigitChars[n + 1]>>
    ELSE FormatNat(n \div 10) \o <<DigitChars[(n % 10) + 1]>>

\* DateTime<Utc>::to_rfc3339: digits and the letters and signs of RFC 3339,
\* never a quote or a delimiter
ToRfc3339(t) == <<"T">> \o FormatNat(t)

FormatBool(b) == IF b THEN <<"t", "r", "u", "e">> ELSE <<"f", "a", "l", "s", "e">>

Quoted(s) == <<"'">> \o s \o <<"'">>

Sep == <<",", " ">>

-----------------------------------------------------------------------------
(* build_candles_upsert_statement *)

InsertHead == "INSERT INTO openbook.candles (market_name, start_time, end_time, resolution, open, close, high, low, volume, complete) VALUES"
OnConflict == "ON CONFLICT (market_name, start_time, resolution) DO UPDATE SET open=excluded.open, close=excluded.close, high=excluded.high, low=excluded.low, volume=excluded.volume, complete=excluded.complete"

\* format!("('{}', '{}', '{}', '{}', {}, {}, {}, {}, {}, {})", ...)
ValStr(candle) ==
    <<"(">> \o Quoted(candle.market_name)
      \o Sep \o Quoted(ToRfc3339(candle.start_time))
      \o Sep \o Quoted(ToRfc3339(candle.end_time))
      \o Sep \o Quoted(candle.resolution)
      \o Sep \o FormatNat(candle.open)
      \o Sep \o FormatNat(candle.close)
      \o Sep \o FormatNat(candle.high)
      \o Sep \o FormatNat(candle.low)
      \o Sep \o FormatNat(candle.volume)
      \o Sep \o FormatBool(candle.complete)
      \o <<")">>

RECURSIVE ValuesList(_, _)
ValuesList(cs, idx) ==
    IF idx > Len(cs) THEN <<>>
    ELSE (IF idx = 1 THEN <<" ">> ELSE Sep) \o ValStr(cs[idx]) \o ValuesList(cs, idx + 1)

build_candles_upsert_statement(cs) ==
    <<InsertHead>> \o ValuesList(cs, 1) \o <<" ", OnConflict>>

\* One statement for each candle of the batch
StatementPerCandle(cs) ==
    [i \in 1..Len(cs) |-> build_candles_upsert_statement(<<cs[i]>>)]

\* The merge-write of a batch: the one statement built for it
UpsertStatements(cs) == <<build_candles_upsert_statement(cs)>>

-----------------------------------------------------------------------------
(* The store's reading of a statement: scanner, grammar of                  *)
(* INSERT ... VALUES (..), (..) ON CONFLICT ..., coercion to column types   *)

RECURSIVE ScanString(_, _, _)
ScanString(s, i, acc) ==
    IF i > Len(s) THEN [ok |-> FALSE, val |-> acc, next |-> i]
    ELSE IF s[i] = "'"
         THEN IF i < Len(s) /\ s[i + 1] = "'"
              THEN ScanString(s, i + 2, Append(acc, "'"))
              ELSE [ok |-> TRUE, val |-> acc, next |-> i + 1]
         ELSE ScanString(s, i + 1, Append(acc, s[i]))

RECURSIVE ScanNum(_, _, _)
ScanNum(s, i, acc) ==
    IF i <= Len(s) /\ s[i] \in Digits
    THEN ScanNum(s, i + 1, acc * 10 + DigitVal(s[i]))
    ELSE [val |-> acc, next |-> i]

RECURSIVE ScanWord(_, _, _)
ScanWord(s, i, acc) ==
    IF i <= Len(s) /\ s[i] \in Letters
    THEN ScanWord(s, i + 1, Append(acc, s[i]))
    ELSE [val |-> acc, next |-> i]

Bad == <<[k |-> "bad", v |-> <<>>]>>

RECURSIVE Lex(_, _)
Lex(s, i) ==
    IF i > Len(s) THEN <<>>
    ELSE LET ch == s[i] IN
         CASE ch = " " -> Lex(s, i + 1)
           [] ch \in {"(", ")", ","} -> <<[k |-> "p", v |-> ch]>> \o Lex(s, i + 1)
           [] ch \in {InsertHead, OnConflict} -> <<[k |-> "kw", v |-> ch]>> \o Lex(s, i + 1)
           [] ch = "'" ->
                LET r == ScanString(s, i + 1, <<>>) IN
                IF r.ok THEN <<[k |-> "str", v |-> r.val]>> \o Lex(s, r.next) ELSE Bad
           [] ch \in Digits ->
                LET r == ScanNum(s, i, 0) IN
                <<[k |-> "num", v |-> r.val]>> \o Lex(s, r.next)
           [] ch \in Letters ->
                LET r == ScanWord(s, i, <<>>) IN
                <<[k |-> "word", v |-> r.val]>> \o Lex(s, r.next)
           [] OTHER -> Bad

IsP(tok, ch)  == tok.k = "p" /\ tok.v = ch
IsKw(tok, kw) == tok.k = "kw" /\ tok.v = kw
IsExpr(tok)   == tok.k \in {"str", "num", "word"}

NoParse == [ok |-> FALSE, rows |-> <<>>, next |-> 0]

\* expr {, expr} ")"
RECURSIVE ParseExprs(_, _, _)
ParseExprs(t, i, acc) ==
    IF i + 1 > Len(t) \/ ~IsExpr(t[i]) THEN NoParse
    ELSE IF IsP(t[i + 1], ")") THEN [ok |-> TRUE, rows |-> Append(acc, t[i]), next |-> i + 2]
    ELSE IF IsP(t[i + 1], ",") THEN ParseExprs(t, i + 2, Append(acc, t[i]))
    ELSE NoParse

\* "(" exprs ")" {, "(" exprs ")"} ON CONFLICT ... <end>
RECURSIVE ParseRows(_, _, _)
ParseRows(t, i, acc) ==
    IF i > Len(t) \/ ~IsP(t[i], "(") THEN NoParse
    ELSE LET r == ParseExprs(t, i + 1, <<>>) IN
         IF ~r.ok \/ r.next > Len(t) THEN NoParse
         ELSE IF IsP(t[r.next], ",") THEN ParseRows(t, r.next + 1, Append(acc, r.rows))
         ELSE IF IsKw(t[r.next], OnConflict) /\ r.next = Len(t)
              THEN [ok |-> TRUE, rows |-> Append(acc, r.rows), next |-> r.next + 1]
         ELSE NoParse

ParseInsert(s) ==
    LET t == Lex(s, 1) IN
    IF Len(t) = 0 \/ ~IsKw(t[1], InsertHead) THEN NoParse
    ELSE ParseRows(t, 2, <<>>)

AllDigits(s) == Len(s) > 0 /\ \A i \in 1..Len(s) : s[i] \in Digits

NoVal == [ok |-> FALSE, v |-> 0]

\* text column: a literal as written; other values by their output form
AsText(tok) ==
    CASE tok.k = "str"  -> [ok |-> TRUE, v |-> tok.v]
      [] tok.k = "num"  -> [ok |-> TRUE, v |-> FormatNat(tok.v)]
      [] tok.k = "word" -> IF tok.v \in {FormatBool(TRUE), FormatBool(FALSE)}
                           THEN [ok |-> TRUE, v |-> tok.v] ELSE NoVal

\* timestamptz column: a literal holding a timestamp
AsTimestamp(tok) ==
    IF tok.k = "str" /\ Len(tok.v) > 1 /\ tok.v[1] = "T" /\ AllDigits(Tail(tok.v))
    THEN [ok |-> TRUE, v |-> ScanNum(tok.v, 2, 0).val]
    ELSE NoVal

\* double precision column
AsDouble(tok) ==
    CASE tok.k = "num" -> [ok |-> TRUE, v |-> tok.v]
      [] tok.k = "str" -> IF AllDigits(tok.v)
                          THEN [ok |-> TRUE, v |-> ScanNum(tok.v, 1, 0).val] ELSE NoVal
      [] OTHER -> NoVal

\* bool column
AsBool(tok) ==
    IF tok.k \in {"word", "str"} /\ tok.v \in {FormatBool(TRUE), FormatBool(FALSE)}
    THEN [ok |-> TRUE, v |-> (tok.v = FormatBool(TRUE))]
    ELSE NoVal

NumCols == 10

\* One VALUES row against the column list of the statement
Coerce(exprs) ==
    IF Len(exprs) # NumCols THEN [ok |-> FALSE]
    ELSE LET m  == AsText(exprs[1])
             st == AsTimestamp(exprs[2])
             et == AsTimestamp(exprs[3])
             rs == AsText(exprs[4])
             o  == AsDouble(exprs[5])
             c  == AsDouble(exprs[6])
             h  == AsDouble(exprs[7])
             l  == AsDouble(exprs[8])
             vo == AsDouble(exprs[9])
             cp == AsBool(exprs[10])
         IN IF m.ok /\ st.ok /\ et.ok /\ rs.ok /\ o.ok /\ c.ok /\ h.ok /\ l.ok /\ vo.ok /\ cp.ok
            THEN [ok |-> TRUE,
                  row |-> [market_name |-> m.v, start_time |-> st.v, end_time |-> et.v,
                           resolution |-> rs.v, open |-> o.v, close |-> c.v, high |-> h.v,
                           low |-> l.v, volume |-> vo.v, complete |-> cp.v]]
            ELSE [ok |-> FALSE]

\* The statement as the store prepares it: its rows, or a syntax or type error
Prepare(s) ==
    LET p == ParseInsert(s) IN
    IF ~p.ok THEN [ok |-> FALSE, rows |-> <<>>]
    ELSE LET cs == [i \in 1..Len(p.rows) |-> Coerce(p.rows[i])] IN
         IF \A i \in 1..Len(cs) : cs[i].ok
         THEN [ok |-> TRUE, rows |-> [i \in 1..Len(cs) |-> cs[i].row]]
         ELSE [ok |-> FALSE, rows |-> <<>>]

-----------------------------------------------------------------------------
(* Candles handed to the merge-write *)

MarketNames == {<<"a">>, <<"'">>, <<"'", "'">>}
Resolutions == {<<"1", "M">>, <<"1", "H">>}

\* Resolution::get_duration: the bucket length of a resolution, in ticks
Duration(res) == IF res = <<"1", "M">> THEN 1 ELSE 2

\* A candle of price level v: its columns hold different numbers
CandleOf(m, st, res, v) ==
    [market_name |-> m, start_time |-> st, end_time |-> st + Duration(res),
     resolution |-> res, open |-> v, close |-> v + 1, high |-> v + 2, low |-> v - 1,
     volume |-> 10 * v, complete |-> (v = 1)]

CandleInputs ==
    {CandleOf(m, st, res, v) : m \in MarketNames, st \in StartTimes,
                               res \in Resolutions, v \in Levels}

\* Candles of the interleaved runs: one market, one resolution
ConcInputs ==
    {CandleOf(<<"a">>, st, <<"1", "M">>, v) : st \in StartTimes, v \in Levels}

BatchesOf(S) == UNION {[1..n -> S] : n \in 0..MaxBatch}

Batches == BatchesOf(CandleInputs)

\* The statements of a batch as the store prepares them
PlanOf(b) == LET ss == UpsertStatements(b) IN [i \in 1..Len(ss) |-> Prepare(ss[i])]

Plans == LET f == [b \in Batches |-> PlanOf(b)] IN IF f = f THEN f ELSE f

-----------------------------------------------------------------------------
(* INSERT ... ON CONFLICT (market_name, start_time, resolution) DO UPDATE   *)
(* against openbook.candles and its unique index                            *)

Key(r) == <<r.market_name, r.start_time, r.resolution>>

\* No arbiter: every row is inserted
NeverConflicts(existing, incoming) == FALSE

\* idx_market_time_resolution, the arbiter of ON CONFLICT
Conflicts(existing, incoming) == Key(existing) = Key(incoming)

\* id bigint GENERATED ALWAYS AS IDENTITY
Stored(row, id) ==
    [id |-> id, market_name |-> row.market_name, start_time |-> row.start_time,
     end_time |-> row.end_time, resolution |-> row.resolution, open |-> row.open,
     close |-> row.close, high |-> row.high, low |-> row.low, volume |-> row.volume,
     complete |-> row.complete]

\* DO UPDATE SET open=excluded.open, ..., complete=excluded.complete
Updated(old, row) ==
    [old EXCEPT !.open = row.open, !.close = row.close, !.high = row.high,
                !.low = row.low, !.volume = row.volume, !.complete = row.complete]

\* One VALUES row: pending holds the row versions this statement has written
UpsertRow(visible, pending, id, row) ==
    LET written == {q.id : q \in pending}
        mine    == {q \in pending : Conflicts(q, row)}
        old     == {c \in visible : c.id \notin written /\ Conflicts(c, row)}
    IN  IF mine # {}
        THEN [ok |-> FALSE, pending |-> pending]   \* cannot affect row a second time
        ELSE IF old # {}
        THEN [ok |-> TRUE, pending |-> pending \cup {Updated(CHOOSE c \in old : TRUE, row)}]
        ELSE [ok |-> TRUE, pending |-> pending \cup {Stored(row, id)}]

\* The statement's transaction made visible
Commit(visible, pending) ==
    {c \in visible : c.id \notin {q.id : q \in pending}} \cup pending

RECURSIVE RunRows(_, _, _, _, _)
RunRows(visible, pending, id, rows, i) ==
    IF i > Len(rows) THEN [ok |-> TRUE, pending |-> pending, nextId |-> id]
    ELSE LET r == UpsertRow(visible, pending, id, rows[i]) IN
         IF r.ok THEN RunRows(visible, r.pending, id + 1, rows, i + 1)
         ELSE [ok |-> FALSE, pending |-> {}, nextId |-> id + 1]

\* One prepared statement, run to its end in its own transaction
ExecStatement(visible, id, plan, schemaOk) ==
    IF ~schemaOk \/ ~plan.ok THEN [ok |-> FALSE, table |-> visible, nextId |-> id]
    ELSE LET r == RunRows(visible, {}, id, plan.rows, 1) IN
         IF r.ok THEN [ok |-> TRUE, table |-> Commit(visible, r.pending), nextId |-> r.nextId]
         ELSE [ok |-> FALSE, table |-> visible, nextId |-> r.nextId]

\* The statements of one merge-write, in order, stopping at the first error
RECURSIVE ExecAll(_, _, _, _, _)
ExecAll(visible, id, plans, i, schemaOk) ==
    IF i > Len(plans) THEN [ok |-> TRUE, table |-> visible, nextId |-> id]
    ELSE LET r == ExecStatement(visible, id, plans[i], schemaOk) IN
         IF r.ok THEN ExecAll(r.table, r.nextId, plans, i + 1, schemaOk) ELSE r

\* mergeUpsert(batch) against a table and identity sequence
MergeUpsertResult(visible, id, b, schemaOk) == ExecAll(visible, id, Plans[b], 1, schemaOk)

-----------------------------------------------------------------------------
(* State *)

NoLast == [op |-> "none", n |-> 0, ok |-> TRUE]

Init ==
    /\ tableExists = FALSE
    /\ indexExists = FALSE
    /\ candles = {}
    /\ nextId = 1
    /\ wpc = [w \in Writers |-> "idle"]
    /\ wbatch = [w \in Writers |-> <<>>]
    /\ wstmts = [w \in Writers |-> <<>>]
    /\ wrows = [w \in Writers |-> <<>>]
    /\ wpending = [w \in Writers |-> {}]
    /\ last = NoLast
    /\ fetched = <<>>
    /\ ledger = {}
    /\ now = 0
    /\ resp = [op |-> "none"]

writerVars == <<wpc, wbatch, wstmts, wrows, wpending>>

HasDuplicateKeys(table) ==
    \E r1, r2 \in table : r1 # r2 /\ Key(r1) = Key(r2)

\* setup_database -> create_candles_table: CREATE TABLE IF NOT EXISTS, then
\* CREATE UNIQUE INDEX idx_market_time_resolution
SetupDatabase ==
    /\ tableExists' = TRUE
    /\ IF indexExists \/ HasDuplicateKeys(candles)
       THEN /\ last' = [op |-> "setup", n |-> 0, ok |-> FALSE]
            /\ UNCHANGED indexExists
       ELSE /\ last' = [op |-> "setup", n |-> 0, ok |-> TRUE]
            /\ indexExists' = TRUE
    /\ UNCHANGED <<candles, nextId, writerVars, fetched, ledgerVars>>

\* One caller, one batch: the statement built and executed
MergeUpsert(b) ==
    /\ LET r == MergeUpsertResult(candles, nextId, b, tableExists /\ indexExists) IN
       /\ candles' = r.table
       /\ nextId' = r.nextId
       /\ last' = [op |-> "upsert", n |-> Len(b), ok |-> r.ok]
    /\ UNCHANGED <<tableExists, indexExists, writerVars, fetched, ledgerVars>>

NextStore ==
    \/ SetupDatabase
    \/ \E n \in 0..Min(MaxBatch, MaxId + 1 - nextId) :
          \E b \in [1..n -> CandleInputs] : MergeUpsert(b)

SpecStore == Init /\ [][NextStore]_vars

-----------------------------------------------------------------------------
(* Interleaved callers: each statement runs in its own transaction, row by  *)
(* row, and becomes visible at its end; fetch_candles_from reads what is    *)
(* committed                                                                *)

MaxConcId == 3     \* identity values handed out in the interleaved runs

RECURSIVE RowsLeft(_, _)
RowsLeft(plans, i) ==
    IF i > Len(plans) THEN 0 ELSE Len(plans[i].rows) + RowsLeft(plans, i + 1)

Outstanding(w) == Len(wrows[w]) + RowsLeft(wstmts[w], 1)

\* A caller builds the statement of its batch
WBegin(w, b) ==
    /\ wpc[w] \in {"idle", "ok", "err"}
    /\ LET v == CHOOSE v \in Writers : v # w IN
       nextId + Outstanding(v) + Len(b) <= MaxConcId + 1
    /\ wpc' = [wpc EXCEPT ![w] = "next"]
    /\ wbatch' = [wbatch EXCEPT ![w] = b]
    /\ wstmts' = [wstmts EXCEPT ![w] = Plans[b]]
    /\ UNCHANGED <<tableExists, indexExists, candles, nextId, wrows, wpending, last,
                   fetched, ledgerVars>>

\* client.execute of the next statement: parse and plan, or Ok when none is left
WSend(w) ==
    /\ wpc[w] = "next"
    /\ IF wstmts[w] = <<>>
       THEN /\ wpc' = [wpc EXCEPT ![w] = "ok"]
            /\ wbatch' = [wbatch EXCEPT ![w] = <<>>]
            /\ UNCHANGED <<wstmts, wrows>>
       ELSE IF tableExists /\ indexExists /\ Head(wstmts[w]).ok
       THEN /\ wpc' = [wpc EXCEPT ![w] = "rows"]
            /\ wrows' = [wrows EXCEPT ![w] = Head(wstmts[w]).rows]
            /\ wstmts' = [wstmts EXCEPT ![w] = Tail(wstmts[w])]
            /\ UNCHANGED wbatch
       ELSE /\ wpc' = [wpc EXCEPT ![w] = "err"]
            /\ wbatch' = [wbatch EXCEPT ![w] = <<>>]
            /\ wstmts' = [wstmts EXCEPT ![w] = <<>>]
            /\ UNCHANGED wrows
    /\ UNCHANGED <<tableExists, indexExists, candles, nextId, wpending, last,
                   fetched, ledgerVars>>

\* The running statement takes its next VALUES row; it waits while another
\* transaction holds an uncommitted row of the same key
WRow(w) ==
    /\ wpc[w] = "rows"
    /\ wrows[w] # <<>>
    /\ LET row == Head(wrows[w]) IN
       /\ \A v \in Writers \ {w} : \A q \in wpending[v] : ~Conflicts(q, row)
       /\ LET r == UpsertRow(candles, wpending[w], nextId, row) IN
          IF r.ok
          THEN /\ wpending' = [wpending EXCEPT ![w] = r.pending]
               /\ wrows' = [wrows EXCEPT ![w] = Tail(wrows[w])]
               /\ UNCHANGED <<wpc, wstmts, wbatch>>
          ELSE /\ wpending' = [wpending EXCEPT ![w] = {}]
               /\ wrows' = [wrows EXCEPT ![w] = <<>>]
               /\ wstmts' = [wstmts EXCEPT ![w] = <<>>]
               /\ wbatch' = [wbatch EXCEPT ![w] = <<>>]
               /\ wpc' = [wpc EXCEPT ![w] = "err"]
    /\ nextId' = nextId + 1
    /\ UNCHANGED <<tableExists, indexExists, candles, last, fetched, ledgerVars>>

\* End of the statement: its row versions become visible together
WCommit(w) ==
    /\ wpc[w] = "rows"
    /\ wrows[w] = <<>>
    /\ candles' = Commit(candles, wpending[w])
    /\ wpending' = [wpending EXCEPT ![w] = {}]
    /\ wpc' = [wpc EXCEPT ![w] = "next"]
    /\ UNCHANGED <<tableExists, indexExists, nextId, wbatch, wstmts, wrows, last,
                   fetched, ledgerVars>>

\* A persistence failure while the statement runs (connection lost, deadlock
\* victim): the transaction is rolled back
WAbort(w) ==
    /\ wpc[w] = "rows"
    /\ wpending' = [wpending EXCEPT ![w] = {}]
    /\ wrows' = [wrows EXCEPT ![w] = <<>>]
    /\ wstmts' = [wstmts EXCEPT ![w] = <<>>]
    /\ wbatch' = [wbatch EXCEPT ![w] = <<>>]
    /\ wpc' = [wpc EXCEPT ![w] = "err"]
    /\ UNCHANGED <<tableExists, indexExists, candles, nextId, last, fetched, ledgerVars>>

\* Sequences listing every element of S once
Orderings(S) ==
    {f \in [1..Cardinality(S) -> S] : \A i, j \in 1..Cardinality(S) : i # j => f[i] # f[j]}

\* The columns selected by the candle queries
CandleRow(r) ==
    [market_name |-> r.market_name, start_time |-> r.start_time, end_time |-> r.end_time,
     resolution |-> r.resolution, open |-> r.open, close |-> r.close, high |-> r.high,
     low |-> r.low, volume |-> r.volume, complete |-> r.complete]

\* fetch_candles_from: the possible results against a table
fetch_candles_from(table, market_name, resolution, start_time, end_time) ==
    LET sel == {r \in table : /\ r.market_name = market_name
                              /\ r.resolution = resolution
                              /\ r.start_time >= start_time
                              /\ r.end_time <= end_time}
    IN  {[i \in 1..Cardinality(sel) |-> CandleRow(f[i])] :
            f \in {g \in Orderings(sel) :
                     \A i, j \in 1..Cardinality(sel) :
                        i < j => g[i].start_time <= g[j].start_time}}

FetchCandlesFrom(m, res, st, et) ==
    /\ tableExists
    /\ fetched' \in fetch_candles_from(candles, m, res, st, et)
    /\ UNCHANGED <<tableExists, indexExists, candles, nextId, writerVars, last, ledgerVars>>

NextConc ==
    \/ \E w \in Writers : \E b \in BatchesOf(ConcInputs) : WBegin(w, b)
    \/ \E w \in Writers : WSend(w)
    \/ \E w \in Writers : WRow(w)
    \/ \E w \in Writers : WCommit(w)
    \/ \E w \in Writers : WAbort(w)
    \/ \E st \in StartTimes, d \in 1..2 :
          FetchCandlesFrom(<<"a">>, <<"1", "M">>, st, st + d)

\* The store after setup_database has succeeded once
InitConc ==
    /\ tableExists = TRUE
    /\ indexExists = TRUE
    /\ candles = {}
    /\ nextId = 1
    /\ wpc = [w \in Writers |-> "idle"]
    /\ wbatch = [w \in Writers |-> <<>>]
    /\ wstmts = [w \in Writers |-> <<>>]
    /\ wrows = [w \in Writers |-> <<>>]
    /\ wpending = [w \in Writers |-> {}]
    /\ last = [op |-> "setup", n |-> 0, ok |-> TRUE]
    /\ fetched = <<>>
    /\ ledger = {}
    /\ now = 0
    /\ resp = [op |-> "none"]

SpecConc == InitConc /\ [][NextConc]_vars

-----------------------------------------------------------------------------
(* Claims about the candle store *)

SchemaReady == tableExists /\ indexExists

DistinctKeys(b) == \A i, j \in 1..Len(b) : i # j => Key(b[i]) # Key(b[j])

\* The row of the table that holds candle c, all of its columns as supplied
Holds(r, c) ==
    /\ r.market_name = c.market_name /\ r.resolution = c.resolution
    /\ r.start_time = c.start_time
    /\ r.open = c.open /\ r.close = c.close /\ r.high = c.high /\ r.low = c.low
    /\ r.volume = c.volume /\ r.complete = c.complete

\* C1: after any sequence of merge-writes against the table and index made by
\* create_candles_table, the candle table holds at most one row for each
\* (market_name, start_time, resolution).
C1_OneRowPerKey ==
    \A r1, r2 \in candles : Key(r1) = Key(r2) => r1 = r2

\* Two one-candle merge-writes of the same key have succeeded: the second
\* overwrote the row of the first.
C1_Witness ==
    /\ last.op = "upsert" /\ last.ok /\ last.n = 1
    /\ nextId = 3
    /\ Cardinality(candles) = 1

\* C2: for every store state and every batch with pairwise distinct keys,
\* executing the merge-write of the batch twice leaves the table as executing
\* it once does, and the table then holds, for each candle of the batch, a row
\* with the open, close, high, low, volume and complete supplied.
C2_Idempotent ==
    SchemaReady =>
        \A b \in Batches :
            DistinctKeys(b) =>
                LET once  == MergeUpsertResult(candles, nextId, b, TRUE)
                    twice == MergeUpsertResult(once.table, once.nextId, b, TRUE)
                IN  /\ twice.table = once.table
                    /\ \A i \in 1..Len(b) :
                          \E r \in twice.table :
                             /\ Key(r) = Key(b[i])
                             /\ r.open = b[i].open /\ r.close = b[i].close
                             /\ r.high = b[i].high /\ r.low = b[i].low
                             /\ r.volume = b[i].volume /\ r.complete = b[i].complete

\* C3: the table changes only in a step that makes a whole batch visible at
\* once, after which nothing of that merge-write can still fail; a step in
\* which a merge-write fails leaves the table as it is; and a read returns
\* rows of the committed table only.
C3_AllOrNothing ==
    [][ /\ candles' # candles =>
              \E w \in Writers :
                 /\ wpc[w] = "rows" /\ wpc'[w] = "next"
                 /\ wstmts'[w] = <<>>
                 /\ \A i \in 1..Len(wbatch[w]) : \E r \in candles' : Holds(r, wbatch[w][i])
        /\ \A w \in Writers : (wpc[w] # "err" /\ wpc'[w] = "err") => candles' = candles
        /\ fetched' # fetched =>
              \E st \in StartTimes, d \in 1..2 :
                 fetched' \in fetch_candles_from(candles, <<"a">>, <<"1", "M">>, st, st + d)
      ]_vars

\* A read has returned both candles of a committed batch; one caller's
\* merge-write has failed and the other's statement is running.
C3_Witness ==
    /\ Len(fetched) = 2
    /\ \E w, v \in Writers : wpc[w] = "err" /\ wpc[v] = "rows" /\ wrows[v] # <<>>

\* C9: for every batch of candles with pairwise distinct keys, whatever
\* characters market_name and resolution hold, the merge-write stores exactly
\* one row for each supplied candle, with the strings and the values supplied,
\* and changes no row of another key.
C9_StringsDefended ==
    SchemaReady =>
        \A b \in Batches :
            (Len(b) > 0 /\ DistinctKeys(b)) =>
                LET res  == MergeUpsertResult(candles, nextId, b, TRUE)
                    keys == {Key(b[i]) : i \in 1..Len(b)}
                IN  /\ \A i \in 1..Len(b) :
                          Cardinality({r \in res.table : Holds(r, b[i])}) = 1
                    /\ \A r \in candles : Key(r) \notin keys => r \in res.table
                    /\ \A r \in res.table : Key(r) \notin keys => r \in candles

\* C11: setup_database called on a store on which an earlier setup_database
\* succeeded returns Ok again and leaves the candles table, its rows and its
\* unique index on (market_name, start_time, resolution) unchanged.
C11_SetupRerunnable ==
    [][(SchemaReady /\ SetupDatabase) =>
          /\ last'.ok
          /\ UNCHANGED <<tableExists, indexExists, candles>>]_vars

-----------------------------------------------------------------------------
(* The fill ledger: openbook.openbook_fill_events *)

MaxFills == 2      \* rows of the ledger
MaxNow   == 3      \* the clock runs 0..MaxNow

\* interval '1 day', in ticks
Day == 2

\* LIMIT 10000
TraderLimit == 10000

Markets == {"m1", "m2"}
Owners  == {"o1", "o2"}

\* A row of openbook_fill_events; the queries read block_datetime and time
\* as the one timestamp of the fill
Fill(market, t, bid, maker, price, size, instr, seq, owner, paid, received) ==
    [market |-> market, block_datetime |-> t, bid |-> bid, maker |-> maker,
     price |-> price, size |-> size, instruction_num |-> instr, seq_num |-> seq,
     open_orders_owner |-> owner, native_quantity_paid |-> paid,
     native_quantity_received |-> received]

\* sum(..) over the rows S, fn giving the summand of each row
RECURSIVE SumOver(_, _)
SumOver(S, fn) ==
    IF S = {} THEN 0
    ELSE LET x == CHOOSE x \in S : TRUE IN fn[x] + SumOver(S \ {x}, fn)

MaxOf(S) == CHOOSE x \in S : \A y \in S : y <= x
MinOf(S) == CHOOSE x \in S : \A y \in S : x <= y

Range(f) == {f[i] : i \in DOMAIN f}

\* A column value with its store type; the empty sequence is NULL
Cell(ty, v) == [ty |-> ty, v |-> v]

Coalesce(x, d) == IF x = <<>> THEN d ELSE x[1]

\* tokio_postgres Row::get: panics when the column's type is not the one asked
Panics(row, idx, ty) == idx + 1 > Len(row) \/ row[idx + 1].ty # ty
Get(row, idx)        == row[idx + 1].v

-----------------------------------------------------------------------------
(* fetch_fills_from and PgOpenBookFill::from_row *)

\* PgOpenBookFill::from_row: columns 0..4 as time, bid, maker, price, size
PgOpenBookFill_from_row(row) ==
    IF \/ Panics(row, 0, "timestamptz") \/ Panics(row, 1, "bool") \/ Panics(row, 2, "bool")
       \/ Panics(row, 3, "float8") \/ Panics(row, 4, "float8")
    THEN [panic |-> TRUE]
    ELSE [panic |-> FALSE, time |-> Get(row, 0), bid |-> Get(row, 1), maker |-> Get(row, 2),
          price |-> Get(row, 3), size |-> Get(row, 4)]

\* SELECT block_datetime as "time", market as "market_key", bid, maker, price, size
FillColumns(f) ==
    <<Cell("timestamptz", f.block_datetime), Cell("text", f.market), Cell("bool", f.bid),
      Cell("bool", f.maker), Cell("float8", f.price), Cell("float8", f.size)>>

\* The possible outcomes of fetch_fills_from: ORDER BY time asc fixes the order
\* of rows of different times only
fetch_fills_from(L, market, start_time, end_time) ==
    LET sel == {f \in L : /\ f.market = market
                          /\ f.block_datetime >= start_time
                          /\ f.block_datetime < end_time
                          /\ f.maker = TRUE}
        n   == Cardinality(sel)
        ord == {g \in Orderings(sel) :
                   \A i, j \in 1..n : i < j => g[i].block_datetime <= g[j].block_datetime}
    IN  {LET fills == [i \in 1..n |-> PgOpenBookFill_from_row(FillColumns(g[i]))] IN
         IF \E i \in 1..n : fills[i].panic
         THEN [panic |-> TRUE, rows |-> <<>>]
         ELSE [panic |-> FALSE, rows |-> fills] : g \in ord}

-----------------------------------------------------------------------------
(* fetch_coingecko_24h_volume *)

PgCoinGecko24HourVolume_from_row(row) ==
    IF Panics(row, 0, "text") \/ Panics(row, 1, "float8") \/ Panics(row, 2, "float8")
    THEN [panic |-> TRUE]
    ELSE [panic |-> FALSE, address |-> Get(row, 0), base_size |-> Get(row, 1),
          quote_size |-> Get(row, 2)]

FillSize(f)  == f.size
FillQuote(f) == f.size * f.price

\* The same window without the side filter: both legs of a trade
BothLegsVolumeRows(L, t) == {f \in L : f.block_datetime >= t - Day}

\* where block_datetime >= current_timestamp - interval '1 day' and bid = true
VolumeRows(L, t) == {f \in L : f.block_datetime >= t - Day /\ f.bid = TRUE}

\* t2 and t3: one row for each market that has rows in VolumeRows
VolumeGroup(L, t, market, summand) ==
    LET g == {f \in VolumeRows(L, t) : f.market = market} IN
    IF g = {} THEN <<>> ELSE <<SumOver(g, [f \in g |-> summand[f]])>>

\* t1 LEFT JOIN t2 LEFT JOIN t3, one row for each element of the array
fetch_coingecko_24h_volume(L, t, market_address_strings) ==
    LET rows == [i \in 1..Len(market_address_strings) |->
                   LET m == market_address_strings[i] IN
                   PgCoinGecko24HourVolume_from_row(
                      <<Cell("text", m),
                        Cell("float8", Coalesce(VolumeGroup(L, t, m, [f \in L |-> FillSize(f)]), 0)),
                        Cell("float8", Coalesce(VolumeGroup(L, t, m, [f \in L |-> FillQuote(f)]), 0))>>)]
    IN  IF \E i \in 1..Len(rows) : rows[i].panic
        THEN [panic |-> TRUE, rows |-> <<>>]
        ELSE [panic |-> FALSE, rows |-> rows]

-----------------------------------------------------------------------------
(* fetch_coingecko_24h_high_low *)

PgCoinGecko24HighLow_from_row(row) ==
    IF \/ Panics(row, 0, "text") \/ Panics(row, 1, "float8") \/ Panics(row, 2, "float8")
       \/ Panics(row, 3, "float8")
    THEN [panic |-> TRUE]
    ELSE [panic |-> FALSE, address |-> Get(row, 0), high |-> Get(row, 1),
          low |-> Get(row, 2), close |-> Get(row, 3)]

MarketFills(L, market) == {f \in L : f.market = market}

\* select market, max(block_datetime) as max_time ... group by market
MaxTime(L, market) == MaxOf({f.block_datetime : f \in MarketFills(L, market)})

\* row_number() over (partition by market order by instruction_num desc) = 1:
\* any row of the greatest instruction_num
FirstByInstruction(S) == {f \in S : \A g \in S : g.instruction_num <= f.instruction_num}

\* with markets as (...): the possible "close" of a market that has fills
MarketsClose(L, market) ==
    LET atMax == {f \in MarketFills(L, market) : f.block_datetime = MaxTime(L, market)}
    IN  {f.price : f \in FirstByInstruction(atMax)}

\* where ofe.block_datetime > current_timestamp - interval '1 day'
HighLowWindow(L, t, market) ==
    {f \in MarketFills(L, market) : f.block_datetime > t - Day}

\* The left-joined relation a: no row (<<>>), or high, low and the possible closes
WindowStats(L, t, market) ==
    LET w == HighLowWindow(L, t, market) IN
    IF w = {} THEN <<>>
    ELSE LET high     == MaxOf({f.price : f \in w})
             low      == MinOf({f.price : f \in w})
             max_time == MaxOf({f.block_datetime : f \in w})
             seq_num  == MaxOf({f.seq_num : f \in w})
             joined   == {f \in MarketFills(L, market) :
                             /\ f.block_datetime = max_time
                             /\ f.seq_num = seq_num
                             /\ f.block_datetime = MaxTime(L, market)}
         IN  IF joined = {} THEN <<>>
             ELSE <<[high |-> high, low |-> low,
                     closes |-> {f.price : f \in FirstByInstruction(joined)}]>>

\* The rows the statement can return for one market of "markets"
HighLowRows(L, t, market) ==
    LET a == WindowStats(L, t, market) IN
    {PgCoinGecko24HighLow_from_row(
        <<Cell("text", market),
          Cell("float8", IF a = <<>> THEN mclose ELSE a[1].high),
          Cell("float8", IF a = <<>> THEN mclose ELSE a[1].low),
          Cell("float8", IF a = <<>> THEN mclose ELSE aclose)>>) :
        mclose \in MarketsClose(L, market),
        aclose \in (IF a = <<>> THEN {0} ELSE a[1].closes)}

\* The possible outcomes of fetch_coingecko_24h_high_low: a row for each
\* requested market that has a fill
fetch_coingecko_24h_high_low(L, t, market_address_strings) ==
    LET present == SelectSeq(market_address_strings, LAMBDA m : MarketFills(L, m) # {})
        P       == Range(present)
        choices == {ch \in [P -> UNION {HighLowRows(L, t, m) : m \in P}] :
                       \A m \in P : ch[m] \in HighLowRows(L, t, m)}
    IN  {[panic |-> FALSE, rows |-> [i \in 1..Len(present) |-> ch[present[i]]]] :
            ch \in choices}

-----------------------------------------------------------------------------
(* fetch_top_traders_by_base_volume_from, fetch_top_traders_by_quote_volume_from *)

\* WHERE market = $1 AND time >= $2 AND time < $3
TraderRows(L, market, start_time, end_time) ==
    {f \in L : /\ f.market = market
               /\ f.block_datetime >= start_time
               /\ f.block_datetime < end_time}

\* GROUP BY open_orders_owner, ORDER BY raw_ask_size + raw_bid_size DESC, LIMIT
TopTraders(sel, ask, bid) ==
    LET owners == {f.open_orders_owner : f \in sel}
        rowOf  == [o \in owners |->
                     LET g == {f \in sel : f.open_orders_owner = o} IN
                     [open_orders_owner |-> o,
                      raw_ask_size |-> SumOver(g, [f \in g |-> ask[f]]),
                      raw_bid_size |-> SumOver(g, [f \in g |-> bid[f]])]]
        n      == Cardinality(owners)
        ord    == {g \in Orderings(owners) :
                      \A i, j \in 1..n :
                         i < j => rowOf[g[i]].raw_ask_size + rowOf[g[i]].raw_bid_size
                                    >= rowOf[g[j]].raw_ask_size + rowOf[g[j]].raw_bid_size}
    IN  {[i \in 1..Min(n, TraderLimit) |-> rowOf[g[i]]] : g \in ord}

\* CASE bid WHEN true THEN 0 WHEN false THEN 1 END
AskSide(f) == IF f.bid THEN 0 ELSE 1
\* CASE bid WHEN true THEN 1 WHEN false THEN 0 END
BidSide(f) == IF f.bid THEN 1 ELSE 0

BaseAsk(f)  == f.native_quantity_paid * AskSide(f)
BaseBid(f)  == f.native_quantity_received * BidSide(f)
QuoteAsk(f) == f.native_quantity_received * AskSide(f)
QuoteBid(f) == f.native_quantity_paid * BidSide(f)

fetch_top_traders_by_base_volume_from(L, market, start_time, end_time) ==
    TopTraders(TraderRows(L, market, start_time, end_time),
               [f \in L |-> BaseAsk(f)], [f \in L |-> BaseBid(f)])

\* The quote-volume ranking with the columns of the base-volume one
QuoteAsBase(L, market, start_time, end_time) ==
    TopTraders(TraderRows(L, market, start_time, end_time),
               [f \in L |-> BaseAsk(f)], [f \in L |-> BaseBid(f)])

fetch_top_traders_by_quote_volume_from(L, market, start_time, end_time) ==
    TopTraders(TraderRows(L, market, start_time, end_time),
               [f \in L |-> QuoteAsk(f)], [f \in L |-> QuoteBid(f)])

-----------------------------------------------------------------------------
(* The ledger grows as blocks are produced; queries run against it *)

NoResp == [op |-> "none"]

Prices == {1, 2}
Nums   == {1, 2}
Lots   == {[price |-> 1, size |-> 1], [price |-> 2, size |-> 3]}
Qtys   == {[paid |-> 1, received |-> 2], [paid |-> 3, received |-> 1]}

\* Fills of a block at time t: price, instruction and sequence numbers vary
LedgerFills(t) ==
    {Fill("m1", t, TRUE, mk, p, 1, i, sq, "o1", 1, 1) :
        mk \in BOOLEAN, p \in Prices, i \in Nums, sq \in Nums}
    \cup {Fill("m1", t, FALSE, TRUE, 1, 1, 1, 1, "o1", 1, 1),
          Fill("m2", t, TRUE, TRUE, 2, 1, 1, 1, "o1", 1, 1)}

\* Fills of a block at time t: side, maker flag, price and size vary
VolumeFills(t) ==
    {Fill("m1", t, b, mk, lot.price, lot.size, 1, 1, "o1", 1, 1) :
        b \in BOOLEAN, mk \in BOOLEAN, lot \in Lots}
    \cup {Fill("m2", t, TRUE, FALSE, 2, 3, 1, 1, "o1", 1, 1)}

\* Fills of a block at time t: owner, side and native quantities vary
TraderFills(t) ==
    {Fill("m1", t, b, TRUE, 1, 1, 1, 1, "o1", q.paid, q.received) :
        b \in BOOLEAN, q \in Qtys}
    \cup {Fill("m1", t, b, TRUE, 1, 1, 1, 1, "o2", 1, 2) : b \in BOOLEAN}
    \cup {Fill("m2", t, TRUE, TRUE, 1, 1, 1, 1, "o1", 3, 3)}

Requests == {<<>>, <<"m1">>, <<"m2">>, <<"m1", "m2">>}

\* The indexer appends a fill of the current block
AppendFill(f) ==
    /\ Cardinality(ledger) < MaxFills
    /\ f.block_datetime = now
    /\ f \notin ledger
    /\ ledger' = ledger \cup {f}
    /\ resp' = NoResp
    /\ UNCHANGED <<now, storeVars>>

Tick ==
    /\ now < MaxNow
    /\ now' = now + 1
    /\ resp' = NoResp
    /\ UNCHANGED <<ledger, storeVars>>

FetchFillsFrom(market, start_time, end_time) ==
    /\ \E out \in fetch_fills_from(ledger, market, start_time, end_time) :
          resp' = [op |-> "fills", market |-> market, start_time |-> start_time,
                   end_time |-> end_time, out |-> out]
    /\ UNCHANGED <<ledger, now, storeVars>>

FetchCoingecko24hVolume(req) ==
    /\ resp' = [op |-> "volume", req |-> req,
                out |-> fetch_coingecko_24h_volume(ledger, now, req)]
    /\ UNCHANGED <<ledger, now, storeVars>>

FetchCoingecko24hHighLow(req) ==
    /\ \E out \in fetch_coingecko_24h_high_low(ledger, now, req) :
          resp' = [op |-> "high_low", req |-> req, out |-> out]
    /\ UNCHANGED <<ledger, now, storeVars>>

FetchTopTradersByBaseVolumeFrom(market, start_time, end_time) ==
    /\ \E rows \in fetch_top_traders_by_base_volume_from(ledger, market, start_time, end_time) :
          resp' = [op |-> "top_base", market |-> market, start_time |-> start_time,
                   end_time |-> end_time, rows |-> rows]
    /\ UNCHANGED <<ledger, now, storeVars>>

FetchTopTradersByQuoteVolumeFrom(market, start_time, end_time) ==
    /\ \E rows \in fetch_top_traders_by_quote_volume_from(ledger, market, start_time, end_time) :
          resp' = [op |-> "top_quote", market |-> market, start_time |-> start_time,
                   end_time |-> end_time, rows |-> rows]
    /\ UNCHANGED <<ledger, now, storeVars>>

TimeRanges == {<<a, b>> \in (0..MaxNow) \X (1..MaxNow + 1) : a < b /\ b <= a + 2}

\* Ranges of the top-trader requests: [start_time, end_time)
TraderRanges == {<<0, 2>>, <<1, 2>>, <<1, 3>>}

NextLedger ==
    \/ \E f \in LedgerFills(now) : AppendFill(f)
    \/ Tick
    \/ \E m \in Markets, r \in TimeRanges : FetchFillsFrom(m, r[1], r[2])
    \/ \E req \in Requests : FetchCoingecko24hVolume(req)
    \/ \E req \in Requests : FetchCoingecko24hHighLow(req)

SpecLedger == Init /\ [][NextLedger]_vars

NextVolume ==
    \/ \E f \in VolumeFills(now) : AppendFill(f)
    \/ Tick
    \/ \E req \in Requests : FetchCoingecko24hVolume(req)

SpecVolume == Init /\ [][NextVolume]_vars

NextTraders ==
    \/ \E f \in TraderFills(now) : AppendFill(f)
    \/ Tick
    \/ \E m \in Markets, r \in TraderRanges : FetchTopTradersByBaseVolumeFrom(m, r[1], r[2])
    \/ \E m \in Markets, r \in TraderRanges : FetchTopTradersByQuoteVolumeFrom(m, r[1], r[2])

SpecTraders == Init /\ [][NextTraders]_vars

-----------------------------------------------------------------------------
(* Claims about the ledger queries *)

\* Fills of S that no fill of S follows in (time, sequence number) order
LatestFills(S) ==
    {f \in S : \A g \in S :
        \/ g.block_datetime < f.block_datetime
        \/ (g.block_datetime = f.block_datetime /\ g.seq_num <= f.seq_num)}

\* The 24h window set of a market: fills with time >= now - 24h
Window24h(market) == {f \in MarketFills(ledger, market) : f.block_datetime >= now - Day}

RowsFor(rows, market) == {i \in 1..Len(rows) : rows[i].address = market}

\* C4: for every requested market with a fill but none in the last 24 hours,
\* the high/low query returns high = low = close = the price of the fill of
\* greatest time, ties broken by greatest sequence number, and the volume query
\* returns base_size = 0 and quote_size = 0.
C4_SnapshotFallback ==
    /\ resp.op = "high_low" =>
          \A m \in Range(resp.req) :
             (MarketFills(ledger, m) # {} /\ Window24h(m) = {}) =>
                \E i \in RowsFor(resp.out.rows, m) :
                   LET r == resp.out.rows[i] IN
                   /\ r.high = r.close /\ r.low = r.close
                   /\ r.close \in {f.price : f \in LatestFills(MarketFills(ledger, m))}
    /\ resp.op = "volume" =>
          \A m \in Range(resp.req) :
             (MarketFills(ledger, m) # {} /\ Window24h(m) = {}) =>
                \E i \in RowsFor(resp.out.rows, m) :
                   resp.out.rows[i].base_size = 0 /\ resp.out.rows[i].quote_size = 0

\* C5: the high/low query and the volume query each return exactly one row
\* for every requested market, whatever the ledger holds.
C5_OneRowPerMarket ==
    resp.op \in {"high_low", "volume"} =>
        /\ ~resp.out.panic
        /\ Len(resp.out.rows) = Len(resp.req)
        /\ \A m \in Range(resp.req) : Cardinality(RowsFor(resp.out.rows, m)) = 1

\* C6: for every requested market whose 24h window set is not empty, the
\* high/low query returns the greatest and the least price of the window set
\* and, as close, the price of the window fill of greatest time, ties broken
\* by greatest sequence number.
C6_WindowHighLowClose ==
    resp.op = "high_low" =>
        \A m \in Range(resp.req) :
           Window24h(m) # {} =>
              \E i \in RowsFor(resp.out.rows, m) :
                 LET r == resp.out.rows[i] IN
                 /\ r.high = MaxOf({f.price : f \in Window24h(m)})
                 /\ r.low = MinOf({f.price : f \in Window24h(m)})
                 /\ r.close \in {f.price : f \in LatestFills(Window24h(m))}

VolumeAnswer(legs(_)) ==
    /\ ~resp.out.panic
    /\ Len(resp.out.rows) = Len(resp.req)
    /\ \A i \in 1..Len(resp.req) :
          LET r == resp.out.rows[i]
              S == {f \in Window24h(resp.req[i]) : legs(f)}
          IN  /\ r.address = resp.req[i]
              /\ r.base_size = SumOver(S, [f \in S |-> f.size])
              /\ r.quote_size = SumOver(S, [f \in S |-> f.size * f.price])

IsMaker(f) == f.maker
IsBid(f)   == f.bid

TraderAnswer(Ask(_), Bid(_)) ==
    LET sel    == {f \in ledger : /\ f.market = resp.market
                                  /\ f.block_datetime >= resp.start_time
                                  /\ f.block_datetime < resp.end_time}
        rows   == resp.rows
        total(r) == r.raw_ask_size + r.raw_bid_size
    IN  /\ \A o \in {f.open_orders_owner : f \in sel} :
              Cardinality({i \in 1..Len(rows) : rows[i].open_orders_owner = o}) = 1
        /\ \A i \in 1..Len(rows) :
              LET mine == {f \in sel : f.open_orders_owner = rows[i].open_orders_owner} IN
              /\ mine # {}
              /\ rows[i].raw_ask_size = SumOver(mine, [f \in mine |-> Ask(f)])
              /\ rows[i].raw_bid_size = SumOver(mine, [f \in mine |-> Bid(f)])
        /\ \A i, j \in 1..Len(rows) : i < j => total(rows[i]) >= total(rows[j])

ReceivedOfBids(f) == IF f.bid THEN f.native_quantity_received ELSE 0
PaidOfAsks(f)     == IF f.bid THEN 0 ELSE f.native_quantity_paid
ReceivedOfAsks(f) == IF f.bid THEN 0 ELSE f.native_quantity_received
PaidOfBids(f)     == IF f.bid THEN f.native_quantity_paid ELSE 0

C10_FillsInRange ==
    resp.op = "fills" =>
        LET sel == {f \in ledger : /\ f.market = resp.market /\ f.maker
                                   /\ f.block_datetime >= resp.start_time
                                   /\ f.block_datetime < resp.end_time}
            n   == Cardinality(sel)
        IN  /\ ~resp.out.panic
            /\ Len(resp.out.rows) = n
            /\ \E g \in Orderings(sel) :
                  /\ \A i, j \in 1..n :
                        i < j => \/ g[i].block_datetime < g[j].block_datetime
                                 \/ /\ g[i].block_datetime = g[j].block_datetime
                                    /\ g[i].seq_num <= g[j].seq_num
                  /\ \A i \in 1..n :
                        LET r == resp.out.rows[i] IN
                        /\ r.time = g[i].block_datetime /\ r.bid = g[i].bid
                        /\ r.maker = g[i].maker /\ r.price = g[i].price
                        /\ r.size = g[i].size

=============================================================================
